---- MODULE Spec2Model ----
(***************************************************************************)
(* WeatherKit NextHourForecast sensor (src/sensor.py).                     *)
(*                                                                         *)
(* Encoding conventions                                                    *)
(*  - A Python value that may be absent (a missing dict key, None) is an   *)
(*    option: None == <<>>, Some(v) == <<v>>.  A dict is a record holding  *)
(*    one option per key, so "k in d" is d[k] # None and d.get(k, x) is    *)
(*    Get(d, k, x).                                                        *)
(*  - Precipitation intensities (mm/h floats in the source) are integers   *)
(*    in tenths of mm/h: 0.5 is 5, 2.5 is 25, 10.0 is 100.                 *)
(*  - Python list indices are 0-based, TLA+ sequences 1-based: the sample  *)
(*    at position j of a sequence has Python index j - 1.  Period records  *)
(*    keep the Python indices.                                             *)
(***************************************************************************)
EXTENDS Integers, Sequences, FiniteSets, TLC

VARIABLES data, last_update_success, translations, ret, periods

vars == <<data, last_update_success, translations, ret, periods>>

\* ------------------------------------------------------------------------
\* Bounds and program constants
\* ------------------------------------------------------------------------

\* Longest enumerated sample sequence (the tail after an optional long run).
MaxLen == 3

\* minutes[:60]: only the next 60 minutes are summarised.
MaxMinutes == 60

\* Intensity tiers, in tenths of mm/h (2.5 and 10.0 in the source).
LightBelow == 25
ModerateBelow == 100

\* ------------------------------------------------------------------------
\* Options and dicts
\* ------------------------------------------------------------------------

None == <<>>
Some(v) == <<v>>

Has(d, k) == d[k] # None
Get(d, k, default) == IF d[k] = None THEN default ELSE d[k][1]

Min2(a, b) == IF a < b THEN a ELSE b
Max2(a, b) == IF a > b THEN a ELSE b

ATTR_CURRENT_WEATHER == "currentWeather"
ATTR_FORECAST_NEXT_HOUR == "forecastNextHour"

\* ------------------------------------------------------------------------
\* The forward scan (sensor.py 141-185, repeated verbatim at 323-367)
\* ------------------------------------------------------------------------

\* current_period_start / current_period_type / current_period_max_intensity
\* and precipitation_periods before the loop.
ScanInit ==
    [start |-> None, type |-> None, max |-> 0, periods |-> <<>>]

\* ScanStep with the running type overwritten by every wet sample, clear or
\* not.
ScanStepAnyTypeWins(st, i, minute) ==
    LET intensity == Get(minute, "precipitationIntensity", 0)
        precip_type == Get(minute, "precipitationType", "clear")
    IN  IF intensity > 0 /\ st.start = None
        THEN [st EXCEPT !.start = Some(i),
                        !.type = Some(precip_type),
                        !.max = intensity]
        ELSE IF intensity > 0 /\ st.start # None
        THEN [st EXCEPT !.max = Max2(st.max, intensity),
                        !.type = Some(precip_type)]
        ELSE IF intensity = 0 /\ st.start # None
        THEN [start |-> None, type |-> None, max |-> 0,
              periods |-> Append(st.periods,
                                 [start |-> st.start[1],
                                  end |-> i - 1,
                                  type |-> st.type[1],
                                  max_intensity |-> st.max])]
        ELSE st

\* One iteration of "for i, minute in enumerate(minutes)".
ScanStep(st, i, minute) ==
    LET intensity == Get(minute, "precipitationIntensity", 0)
        precip_type == Get(minute, "precipitationType", "clear")
    IN  IF intensity > 0 /\ st.start = None
        THEN [st EXCEPT !.start = Some(i),
                        !.type = Some(precip_type),
                        !.max = intensity]
        ELSE IF intensity > 0 /\ st.start # None
        THEN [st EXCEPT !.max = Max2(st.max, intensity),
                        !.type = IF precip_type # "clear"
                                 THEN Some(precip_type) ELSE @]
        ELSE IF intensity = 0 /\ st.start # None
        THEN [start |-> None, type |-> None, max |-> 0,
              periods |-> Append(st.periods,
                                 [start |-> st.start[1],
                                  end |-> i - 1,
                                  type |-> st.type[1],
                                  max_intensity |-> st.max])]
        ELSE st

\* The loop over minutes[lo..hi], in order, from loop state st.  The range
\* is halved, and the test on left makes the evaluator finish the first
\* half before it starts the second, so the evaluation depth stays
\* logarithmic in the length.
RECURSIVE ScanRange(_, _, _, _)
ScanRange(minutes, lo, hi, st) ==
    IF lo > hi THEN st
    ELSE IF lo = hi THEN ScanStep(st, lo - 1, minutes[lo])
    ELSE LET mid == (lo + hi) \div 2
             left == ScanRange(minutes, lo, mid, st)
         IN  IF Len(left.periods) >= 0
             THEN ScanRange(minutes, mid + 1, hi, left)
             ELSE left

ScanFrom(minutes, j, st) == ScanRange(minutes, j, Len(minutes), st)

\* ScanClose that forgets a period still open after the last sample.
ScanCloseDropsOpen(minutes, st) == st.periods

\* "Handle case where precipitation continues to the end".
ScanClose(minutes, st) ==
    IF st.start # None
    THEN Append(st.periods,
                [start |-> st.start[1],
                 end |-> Len(minutes) - 1,
                 type |-> st.type[1],
                 max_intensity |-> st.max])
    ELSE st.periods

\* precipitation_periods of _generate_forecast_summary.
PrecipitationPeriods(minutes) ==
    ScanClose(minutes, ScanFrom(minutes, 1, ScanInit))

\* precipitation_periods of icon: the same loop, over the list icon holds.
IconPeriods(minutes) ==
    ScanClose(minutes, ScanFrom(minutes, 1, ScanInit))

\* ------------------------------------------------------------------------
\* Description keys and translations
\* ------------------------------------------------------------------------

\* IntensityPrefix with each tier reaching up to and including its bound.
IntensityPrefixInclusive(max_intensity) ==
    IF max_intensity <= LightBelow THEN "light_"
    ELSE IF max_intensity <= ModerateBelow THEN "moderate_"
    ELSE "heavy_"

\* "Determine intensity prefix".
IntensityPrefix(max_intensity) ==
    IF max_intensity < LightBelow THEN "light_"
    ELSE IF max_intensity < ModerateBelow THEN "moderate_"
    ELSE "heavy_"

TypeName(precip_type) ==
    IF precip_type = "rain" THEN "rain"
    ELSE IF precip_type = "snow" THEN "snow"
    ELSE IF precip_type = "sleet" THEN "sleet"
    ELSE IF precip_type = "hail" THEN "hail"
    ELSE "precipitation"

_get_precipitation_description_key(precip_type, max_intensity) ==
    IntensityPrefix(max_intensity) \o TypeName(precip_type)

\* state_key.replace("_", " ").title() for the state keys the sensor uses.
TitleCase(state_key) ==
    CASE state_key = "no_precipitation" -> "No Precipitation"
      [] state_key = "light_rain" -> "Light Rain"
      [] state_key = "light_snow" -> "Light Snow"
      [] state_key = "light_sleet" -> "Light Sleet"
      [] state_key = "light_hail" -> "Light Hail"
      [] state_key = "light_precipitation" -> "Light Precipitation"
      [] state_key = "moderate_rain" -> "Moderate Rain"
      [] state_key = "moderate_snow" -> "Moderate Snow"
      [] state_key = "moderate_sleet" -> "Moderate Sleet"
      [] state_key = "moderate_hail" -> "Moderate Hail"
      [] state_key = "moderate_precipitation" -> "Moderate Precipitation"
      [] state_key = "heavy_rain" -> "Heavy Rain"
      [] state_key = "heavy_snow" -> "Heavy Snow"
      [] state_key = "heavy_sleet" -> "Heavy Sleet"
      [] state_key = "heavy_hail" -> "Heavy Hail"
      [] state_key = "heavy_precipitation" -> "Heavy Precipitation"

\* translations.get(translation_key, state_key.replace("_", " ").title());
\* cache is the cached translation table, one option per state key.
_translate_state(cache, state_key) ==
    IF state_key \in DOMAIN cache /\ cache[state_key] # None
    THEN cache[state_key][1]
    ELSE TitleCase(state_key)

\* ------------------------------------------------------------------------
\* Templates and str.format
\* ------------------------------------------------------------------------

\* A template string is the sequence of its pieces: literal text, a named
\* replacement field "{name}", or a lone brace (a malformed field).
Lit(text) == [kind |-> "lit", text |-> text]
Field(name) == [kind |-> "field", text |-> name]
LoneBrace == [kind |-> "brace", text |-> "{"]

PlaceholderNames ==
    {"precipitation", "duration", "minutes", "start_minutes", "end"}

\* A placeholders dict with none of the names.
NoPlaceholders == [n \in PlaceholderNames |-> None]

TemplateKeys ==
    {"now", "for_next_minutes", "in_minutes", "starting_in_minutes_lasting"}

\* The templates dict of _translate_forecast.
templates(key) ==
    CASE key = "now" ->
            <<Field("precipitation"), Lit(" now")>>
      [] key = "for_next_minutes" ->
            <<Field("precipitation"), Lit(" for the next "),
              Field("duration"), Lit(" minutes")>>
      [] key = "in_minutes" ->
            <<Field("precipitation"), Lit(" in "),
              Field("minutes"), Lit(" minutes")>>
      [] key = "starting_in_minutes_lasting" ->
            <<Field("precipitation"), Lit(" starting in "),
              Field("start_minutes"), Lit(" minutes, lasting "),
              Field("duration"), Lit(" minutes")>>

\* key.replace("_", " ") for the keys outside the templates dict that the
\* model calls _translate_forecast with.
KeyAsTemplate(key) ==
    CASE key = "until_further_notice" -> <<Lit("until further notice")>>
      [] key = "ending_in_{end}_minutes" ->
            <<Lit("ending in "), Field("end"), Lit(" minutes")>>
      [] key = "ending_in_{" -> <<Lit("ending in "), LoneBrace>>

OtherKeys ==
    {"until_further_notice", "ending_in_{end}_minutes", "ending_in_{"}

\* The template string as written, nothing substituted.
RECURSIVE TemplateText(_)
TemplateText(pieces) ==
    IF pieces = <<>> THEN ""
    ELSE LET p == Head(pieces)
         IN  (IF p.kind = "field" THEN "{" \o p.text \o "}" ELSE p.text)
             \o TemplateText(Tail(pieces))

\* template.format(**placeholders), left to right: a field whose name is not
\* in placeholders raises KeyError, a lone brace raises ValueError.
RECURSIVE FormatPieces(_, _, _)
FormatPieces(pieces, placeholders, acc) ==
    IF pieces = <<>> THEN [err |-> "none", text |-> acc]
    ELSE LET p == Head(pieces)
         IN  IF p.kind = "lit"
             THEN FormatPieces(Tail(pieces), placeholders, acc \o p.text)
             ELSE IF p.kind = "field"
             THEN IF placeholders[p.text] = None
                  THEN [err |-> "KeyError", text |-> acc]
                  ELSE FormatPieces(Tail(pieces), placeholders,
                                    acc \o placeholders[p.text][1])
             ELSE [err |-> "ValueError", text |-> acc]

Format(pieces, placeholders) == FormatPieces(pieces, placeholders, "")

\* _translate_forecast without the except clause: a failed format raises.
TranslateForecastUncaught(key, placeholders) ==
    LET template == IF key \in TemplateKeys
                    THEN templates(key) ELSE KeyAsTemplate(key)
        r == Format(template, placeholders)
    IN  IF r.err = "none" THEN [raised |-> FALSE, text |-> r.text]
        ELSE [raised |-> TRUE, text |-> ""]

\* _translate_forecast: the formatted template, or the template itself when
\* format raises KeyError or ValueError; any other exception propagates.
_translate_forecast(key, placeholders) ==
    LET template == IF key \in TemplateKeys
                    THEN templates(key) ELSE KeyAsTemplate(key)
        r == Format(template, placeholders)
    IN  IF r.err = "none" THEN [raised |-> FALSE, text |-> r.text]
        ELSE IF r.err \in {"KeyError", "ValueError"}
        THEN [raised |-> FALSE, text |-> TemplateText(template)]
        ELSE [raised |-> TRUE, text |-> ""]

\* ------------------------------------------------------------------------
\* _generate_forecast_summary
\* ------------------------------------------------------------------------

\* PeriodTemplateKey with the duration taken as end - start.
PeriodTemplateKeyShortDuration(period) ==
    LET start_minute == period.start
        duration == period.end - period.start
    IN  IF start_minute = 0
        THEN IF duration = 1 THEN "now" ELSE "for_next_minutes"
        ELSE IF duration = 1 THEN "in_minutes"
        ELSE "starting_in_minutes_lasting"

\* The template key chosen for one period (the if/elif chain on
\* start_minute and duration).
PeriodTemplateKey(period) ==
    LET start_minute == period.start
        duration == period.end - period.start + 1
    IN  IF start_minute = 0
        THEN IF duration = 1 THEN "now" ELSE "for_next_minutes"
        ELSE IF duration = 1 THEN "in_minutes"
        ELSE "starting_in_minutes_lasting"

\* The placeholders dict built for one period in the same chain.
PeriodPlaceholders(cache, period) ==
    LET start_minute == period.start
        duration == period.end - period.start + 1
        precip_desc == _translate_state(cache,
                          _get_precipitation_description_key(
                              period.type, period.max_intensity))
        with_desc == [NoPlaceholders EXCEPT !["precipitation"] = Some(precip_desc)]
    IN  IF start_minute = 0
        THEN IF duration = 1
             THEN with_desc
             ELSE [with_desc EXCEPT !["duration"] = Some(ToString(duration))]
        ELSE IF duration = 1
        THEN [with_desc EXCEPT !["minutes"] = Some(ToString(start_minute))]
        ELSE [with_desc EXCEPT !["start_minutes"] = Some(ToString(start_minute)),
                               !["duration"] = Some(ToString(duration))]

\* summary_parts: one _translate_forecast result per period, in order.
SummaryParts(cache, ps) ==
    [k \in 1..Len(ps) |->
        _translate_forecast(PeriodTemplateKey(ps[k]),
                            PeriodPlaceholders(cache, ps[k])).text]

\* sep.join(parts)
RECURSIVE Join(_, _)
Join(parts, sep) ==
    IF parts = <<>> THEN ""
    ELSE IF Len(parts) = 1 THEN parts[1]
    ELSE parts[1] \o sep \o Join(Tail(parts), sep)

\* The summary text rendered from the scanned periods.
RenderSummary(cache, ps) ==
    IF ps = <<>> THEN _translate_state(cache, "no_precipitation")
    ELSE Join(SummaryParts(cache, ps), "; ")

_generate_forecast_summary(cache, minutes) ==
    RenderSummary(cache, PrecipitationPeriods(minutes))

\* ------------------------------------------------------------------------
\* The sensor's properties
\* ------------------------------------------------------------------------

\* "not self.coordinator.data": None, or a dict with no key.
NoData(d) ==
    \/ d = None
    \/ /\ ~Has(d[1], ATTR_CURRENT_WEATHER)
       /\ ~Has(d[1], ATTR_FORECAST_NEXT_HOUR)

\* "not next_hour_data": a dict with no key.
EmptyNextHour(next_hour_data) ==
    /\ ~Has(next_hour_data, "forecastStart")
    /\ ~Has(next_hour_data, "forecastEnd")
    /\ ~Has(next_hour_data, "minutes")

\* minutes[:60]
Truncate(minutes) == SubSeq(minutes, 1, Min2(Len(minutes), MaxMinutes))

\* The list native_value hands to _generate_forecast_summary, <<>> when it
\* returns before the call.
NativeMinutes(success, d) ==
    IF ~success \/ NoData(d) \/ ~Has(d[1], ATTR_FORECAST_NEXT_HOUR) THEN <<>>
    ELSE LET next_hour_data == d[1][ATTR_FORECAST_NEXT_HOUR][1]
         IN  IF EmptyNextHour(next_hour_data) THEN <<>>
             ELSE Truncate(Get(next_hour_data, "minutes", <<>>))

\* native_value: None, or Some(state string).
native_value(success, d, cache) ==
    IF ~success THEN None
    ELSE IF NoData(d) THEN None
    ELSE IF ~Has(d[1], ATTR_FORECAST_NEXT_HOUR) THEN None
    ELSE LET next_hour_data == d[1][ATTR_FORECAST_NEXT_HOUR][1]
         IN  IF EmptyNextHour(next_hour_data)
             THEN Some(_translate_state(cache, "no_precipitation"))
             ELSE LET minutes == Get(next_hour_data, "minutes", <<>>)
                  IN  IF minutes = <<>>
                      THEN Some(_translate_state(cache, "no_precipitation"))
                      ELSE Some(_generate_forecast_summary(
                                    cache, Truncate(minutes)))

\* PeriodIcon with the light tier reaching up to and including 2.5.
PeriodIconInclusive(first_period) ==
    LET precip_type == first_period.type
        max_intensity == first_period.max_intensity
    IN  IF precip_type = "rain"
        THEN IF max_intensity <= LightBelow
             THEN "mdi:weather-rainy" ELSE "mdi:weather-pouring"
        ELSE IF precip_type = "snow"
        THEN IF max_intensity <= LightBelow
             THEN "mdi:weather-snowy" ELSE "mdi:weather-snowy-heavy"
        ELSE IF precip_type = "sleet" THEN "mdi:weather-snowy-rainy"
        ELSE IF precip_type = "hail" THEN "mdi:weather-hail"
        ELSE "mdi:weather-rainy"

\* The icon chosen from the first period.
PeriodIcon(first_period) ==
    LET precip_type == first_period.type
        max_intensity == first_period.max_intensity
    IN  IF precip_type = "rain"
        THEN IF max_intensity < LightBelow
             THEN "mdi:weather-rainy" ELSE "mdi:weather-pouring"
        ELSE IF precip_type = "snow"
        THEN IF max_intensity < LightBelow
             THEN "mdi:weather-snowy" ELSE "mdi:weather-snowy-heavy"
        ELSE IF precip_type = "sleet" THEN "mdi:weather-snowy-rainy"
        ELSE IF precip_type = "hail" THEN "mdi:weather-hail"
        ELSE "mdi:weather-rainy"

\* ClearIcon with day and night exchanged.
ClearIconSwapped(is_daylight) ==
    IF is_daylight THEN "mdi:weather-night" ELSE "mdi:weather-sunny"

\* "No precipitation expected - use day/night appropriate icon".
ClearIcon(is_daylight) ==
    IF is_daylight THEN "mdi:weather-sunny" ELSE "mdi:weather-night"

\* The list icon scans, <<>> when it returns before the scan.
IconMinutes(d) ==
    IF NoData(d) \/ ~Has(d[1], ATTR_FORECAST_NEXT_HOUR) THEN <<>>
    ELSE Get(d[1][ATTR_FORECAST_NEXT_HOUR][1], "minutes", <<>>)

\* current_weather.get("daylight", True), current_weather defaulting to {}.
IsDaylight(d) ==
    IF ~Has(d[1], ATTR_CURRENT_WEATHER) THEN TRUE
    ELSE Get(d[1][ATTR_CURRENT_WEATHER][1], "daylight", TRUE)

icon(d) ==
    IF NoData(d) \/ ~Has(d[1], ATTR_FORECAST_NEXT_HOUR)
    THEN "mdi:weather-partly-cloudy"
    ELSE LET is_daylight == IsDaylight(d)
             minutes == IconMinutes(d)
         IN  IF minutes = <<>> THEN ClearIcon(is_daylight)
             ELSE LET precipitation_periods == IconPeriods(minutes)
                  IN  IF precipitation_periods = <<>>
                      THEN ClearIcon(is_daylight)
                      ELSE PeriodIcon(precipitation_periods[1])

\* The attributes dict: one option per key ({} is NoAttributes).
NoAttributes ==
    [forecast_start |-> None, forecast_end |-> None,
     minutes |-> None, minute_count |-> None]

\* One entry of attributes["minutes"]; minute.get(k) is None for a missing k.
MinuteAttributes(minute) ==
    [start_time |-> minute["startTime"],
     precipitation_intensity |-> minute["precipitationIntensity"],
     precipitation_chance |-> minute["precipitationChance"],
     precipitation_type |-> minute["precipitationType"]]

\* AttributeMinutes cut to the hour the summary covers.
AttributeMinutesFirstHour(next_hour_data) ==
    Truncate(Get(next_hour_data, "minutes", <<>>))

\* The list extra_state_attributes reports: minutes as received.
AttributeMinutes(next_hour_data) == Get(next_hour_data, "minutes", <<>>)

extra_state_attributes(d) ==
    IF NoData(d) \/ ~Has(d[1], ATTR_FORECAST_NEXT_HOUR) THEN NoAttributes
    ELSE LET next_hour_data == d[1][ATTR_FORECAST_NEXT_HOUR][1]
             minutes == AttributeMinutes(next_hour_data)
         IN  [forecast_start |-> next_hour_data["forecastStart"],
              forecast_end |-> next_hour_data["forecastEnd"],
              minutes |-> IF minutes # <<>>
                          THEN Some([k \in 1..Len(minutes) |->
                                        MinuteAttributes(minutes[k])])
                          ELSE None,
              minute_count |-> IF minutes # <<>>
                               THEN Some(Len(minutes)) ELSE None]

\* ------------------------------------------------------------------------
\* Inputs: forecast payloads and translation caches
\* ------------------------------------------------------------------------

\* One element of the API's minutes array.
Minute(intensity, chance, precip_type) ==
    [startTime |-> None,
     precipitationIntensity |-> intensity,
     precipitationChance |-> chance,
     precipitationType |-> precip_type]

Dry == Minute(Some(0), Some(0), Some("clear"))
Wet(intensity, precip_type) == Minute(Some(intensity), Some(30), Some(precip_type))

\* The sample kinds the enumerated sequences are built from: dry, every
\* type at a light intensity (one of them a type the sensor does not know),
\* rain and snow at the tier boundaries.
SampleKinds ==
    {Dry,
     Wet(5, "rain"), Wet(25, "rain"), Wet(100, "rain"),
     Wet(5, "snow"), Wet(25, "snow"),
     Wet(5, "sleet"), Wet(5, "hail"), Wet(5, "mixed"), Wet(5, "clear")}

\* The kinds that follow a long run in the arrays of about an hour and
\* more: a minute with no key but startTime, heavier snow, and a wet minute
\* reported as clear.
TailKinds == {Minute(None, None, None), Wet(25, "snow"), Wet(5, "clear")}

\* The kinds a long run repeats.
FillKinds == {Dry, Wet(5, "rain")}

\* The startTime of the minute with index i.
TimeOf(i) == "T+" \o ToString(i)

\* Gives every minute of a sequence its startTime.
Stamp(seq) ==
    [k \in 1..Len(seq) |-> [seq[k] EXCEPT !.startTime = Some(TimeOf(k - 1))]]

SeqsUpTo(S, n) == UNION {[1..k -> S] : k \in 0..n}

Repeat(x, n) == [k \in 1..n |-> x]

ShortMinutes == {Stamp(q) : q \in SeqsUpTo(SampleKinds, MaxLen)}

LongMinutes ==
    {Stamp(Repeat(f, n) \o q) :
        f \in FillKinds,
        n \in {MaxMinutes - MaxLen, MaxMinutes},
        q \in SeqsUpTo(TailKinds, MaxLen)}

NextHour(start, end, minutes) ==
    [forecastStart |-> start, forecastEnd |-> end, minutes |-> minutes]

Payload(current_weather, next_hour) ==
    [currentWeather |-> current_weather, forecastNextHour |-> next_hour]

ForecastStart == "2023-09-08T22:03:04Z"
ForecastEnd == "2023-09-08T23:03:04Z"

\* The scenarios of the test fixture and of the design's examples: six
\* minutes of 0.5 rain, [0, 0, 3.0, 3.0, 0, 0] snow, one minute of rain, a
\* dry hour, and 90 minutes whose rain starts after the hour.
ScenarioMinutes ==
    {Stamp(Repeat(Wet(5, "rain"), 6)),
     Stamp(<<Dry, Dry, Wet(30, "snow"), Wet(30, "snow"), Dry, Dry>>),
     Stamp(<<Wet(5, "rain")>>),
     Stamp(Repeat(Dry, MaxMinutes)),
     Stamp(Repeat(Dry, MaxMinutes) \o Repeat(Wet(5, "rain"), MaxMinutes \div 2)),
     Stamp(Repeat(Wet(5, "rain"), MaxMinutes) \o Repeat(Wet(30, "snow"), MaxMinutes \div 2))}

\* Payloads with a next-hour forecast over every enumerated minutes array.
CorePayloads ==
    {Payload(Some([daylight |-> Some(day)]),
             Some(NextHour(Some(ForecastStart), Some(ForecastEnd), Some(m)))) :
        day \in BOOLEAN,
        m \in ShortMinutes \cup LongMinutes \cup ScenarioMinutes}

\* What a refresh can deliver: each data set present or absent, each key of
\* the next-hour forecast present or absent.
RefreshPayloads ==
    {Payload(cw, nh) :
        cw \in {None, Some([daylight |-> None])}
               \cup {Some([daylight |-> Some(day)]) : day \in BOOLEAN},
        nh \in {None}
               \cup {Some(NextHour(fs, fe, m)) :
                        fs \in {None, Some(ForecastStart)},
                        fe \in {None, Some(ForecastEnd)},
                        m \in {None, Some(<<>>)}
                              \cup {Some(q) : q \in ScenarioMinutes}}}

StateKeys ==
    {"no_precipitation"}
    \cup {tier \o name :
            tier \in {"light_", "moderate_", "heavy_"},
            name \in {"rain", "snow", "sleet", "hail", "precipitation"}}

\* The cached translations: none loaded, or a table that translates some
\* of the state keys.
EmptyCache == [k \in StateKeys |-> None]

LoadedCache ==
    [k \in StateKeys |->
        CASE k = "no_precipitation" -> Some("No precipitation expected")
          [] k = "light_rain" -> Some("Light rain")
          [] k = "moderate_snow" -> Some("Moderate snow")
          [] OTHER -> None]

Caches == {EmptyCache, LoadedCache}

\* Placeholder dicts for direct calls of _translate_forecast.
PlaceholderDicts ==
    {[n \in PlaceholderNames |-> IF n \in present THEN Some("<" \o n \o ">") ELSE None] :
        present \in SUBSET PlaceholderNames}

\* ------------------------------------------------------------------------
\* State machine
\* ------------------------------------------------------------------------

NoCall == [op |-> "none", raised |-> FALSE, value |-> None]

\* The sensor exists, the coordinator holds nothing yet.
Init ==
    /\ data = None
    /\ last_update_success = TRUE
    /\ translations \in Caches
    /\ ret = NoCall
    /\ periods = <<>>

\* The coordinator's refresh succeeded and delivered a payload.
RefreshSuccess ==
    \E payload \in RefreshPayloads :
        /\ data' = Some(payload)
        /\ last_update_success' = TRUE
        /\ ret' = NoCall
        /\ periods' = <<>>
        /\ UNCHANGED translations

\* The coordinator's refresh failed: the payload it holds stays.
RefreshFailed ==
    /\ last_update_success' = FALSE
    /\ ret' = NoCall
    /\ periods' = <<>>
    /\ UNCHANGED <<data, translations>>

NativeValue ==
    /\ ret' = [op |-> "native_value", raised |-> FALSE,
               value |-> native_value(last_update_success, data, translations)]
    /\ periods' = PrecipitationPeriods(NativeMinutes(last_update_success, data))
    /\ UNCHANGED <<data, last_update_success, translations>>

Icon ==
    /\ ret' = [op |-> "icon", raised |-> FALSE, value |-> Some(icon(data))]
    /\ periods' = IconPeriods(IconMinutes(data))
    /\ UNCHANGED <<data, last_update_success, translations>>

ExtraStateAttributes ==
    /\ ret' = [op |-> "extra_state_attributes", raised |-> FALSE,
               value |-> extra_state_attributes(data)]
    /\ periods' = <<>>
    /\ UNCHANGED <<data, last_update_success, translations>>

TranslateForecast ==
    \E key \in TemplateKeys \cup OtherKeys, placeholders \in PlaceholderDicts :
        LET r == _translate_forecast(key, placeholders)
        IN  /\ ret' = [op |-> "_translate_forecast", raised |-> r.raised,
                       value |-> Some(r.text),
                       key |-> key, placeholders |-> placeholders]
            /\ periods' = <<>>
            /\ UNCHANGED <<data, last_update_success, translations>>

Next ==
    \/ RefreshSuccess
    \/ RefreshFailed
    \/ NativeValue
    \/ Icon
    \/ ExtraStateAttributes

Spec == Init /\ [][Next]_vars

\* The core as a pure function of the payload: the coordinator holds any of
\* the enumerated payloads, and the properties are read.
InitCore ==
    /\ data \in {Some(p) : p \in CorePayloads}
    /\ last_update_success = TRUE
    /\ translations \in Caches
    /\ ret = NoCall
    /\ periods = <<>>

NextCore ==
    \/ NativeValue
    \/ Icon
    \/ ExtraStateAttributes

SpecCore == InitCore /\ [][NextCore]_vars

\* _translate_forecast called with any key and any placeholders.
NextFormat == TranslateForecast

SpecFormat == Init /\ [][NextFormat]_vars

\* ------------------------------------------------------------------------
\* Vocabulary of the claims: runs of wet minutes, stated without the scan
\* ------------------------------------------------------------------------

\* The minutes array the coordinator holds (<<>> when there is none).
HeldMinutes ==
    IF NoData(data) \/ ~Has(data[1], ATTR_FORECAST_NEXT_HOUR) THEN <<>>
    ELSE Get(data[1][ATTR_FORECAST_NEXT_HOUR][1], "minutes", <<>>)

\* Its first 60 samples.
FirstHour == SubSeq(HeldMinutes, 1, Min2(Len(HeldMinutes), 60))

IntensityAt(m, j) == Get(m[j], "precipitationIntensity", 0)
TypeAt(m, j) == Get(m[j], "precipitationType", "clear")
IsWet(m, j) == IntensityAt(m, j) > 0

\* Positions (1-based) where a maximal run of wet minutes starts / ends.
RunStarts(m) ==
    {j \in 1..Len(m) : IsWet(m, j) /\ (j = 1 \/ ~IsWet(m, j - 1))}
RunEnds(m) ==
    {j \in 1..Len(m) : IsWet(m, j) /\ (j = Len(m) \/ ~IsWet(m, j + 1))}

SetMax(S) == CHOOSE x \in S : \A y \in S : y <= x
SetMin(S) == CHOOSE x \in S : \A y \in S : x <= y

\* The largest intensity among the samples s..e (1-based, inclusive).
PeakOf(m, s, e) == SetMax({IntensityAt(m, j) : j \in s..e})

\* The type of the last sample in s..e whose type is not "clear", and
\* "clear" when there is none.
LastNonClearType(m, s, e) ==
    LET named == {j \in s..e : TypeAt(m, j) # "clear"}
    IN  IF named = {} THEN "clear" ELSE TypeAt(m, SetMax(named))

\* ------------------------------------------------------------------------
\* C3
\* ------------------------------------------------------------------------

\* The periods ps are exactly the maximal wet runs of m, in order.
PeriodsAreRuns(ps, m) ==
    /\ Len(ps) = Cardinality(RunStarts(m))
    /\ {ps[k].start + 1 : k \in 1..Len(ps)} = RunStarts(m)
    /\ {ps[k].end + 1 : k \in 1..Len(ps)} = RunEnds(m)
    /\ \A k \in 1..Len(ps) : ps[k].end >= ps[k].start
    /\ \A k \in 1..(Len(ps) - 1) : ps[k + 1].start > ps[k].end

\* C3: after native_value has scanned the first hour of the held minutes
\* (at most 60 samples, intensities >= 0), the periods it found are exactly
\* the maximal contiguous runs of samples with intensity > 0, in input
\* order: as many periods as runs, each from its run's first index to its
\* last index inclusive (also for a run that reaches the last sample), never
\* overlapping, starts strictly increasing, end >= start; no period for an
\* empty or all-dry input.
C3_ScanEmitsRuns ==
    ret.op = "native_value" =>
        /\ Len(FirstHour) <= 60
        /\ \A j \in 1..Len(FirstHour) : IntensityAt(FirstHour, j) >= 0
        /\ PeriodsAreRuns(periods, FirstHour)

\* Two runs were found, the second reaching the last sample.
C3_Witness ==
    /\ ret.op = "native_value"
    /\ Len(periods) = 2
    /\ periods[2].end = Len(FirstHour) - 1
    /\ periods[2].end > periods[2].start

\* ------------------------------------------------------------------------
\* C10
\* ------------------------------------------------------------------------

\* C10 as claimed: no period's recorded type is "clear"; it is the type of
\* the last non-clear sample of the period, and "precipitation" when every
\* sample of the period is clear.
C10_AsClaimed ==
    ret.op = "native_value" =>
        \A k \in 1..Len(periods) :
            LET t == LastNonClearType(FirstHour, periods[k].start + 1,
                                      periods[k].end + 1)
            IN  /\ periods[k].type # "clear"
                /\ periods[k].type = IF t = "clear" THEN "precipitation" ELSE t

\* C10 amended: a period's recorded type is the type of the last sample of
\* the period whose type is not "clear" (last wins); when every sample of
\* the period is clear the recorded type is "clear" itself, and it is the
\* description key built from the period that names the generic
\* "precipitation" instead.
C10_LastNonClearWins ==
    ret.op = "native_value" =>
        \A k \in 1..Len(periods) :
            LET t == LastNonClearType(FirstHour, periods[k].start + 1,
                                      periods[k].end + 1)
                key == _get_precipitation_description_key(
                           periods[k].type, periods[k].max_intensity)
            IN  /\ periods[k].type = t
                /\ t = "clear" =>
                      key \in {"light_precipitation", "moderate_precipitation",
                               "heavy_precipitation"}

\* A period that starts as rain, turns to snow and ends before a second
\* period whose only sample is reported clear.
C10_Witness ==
    /\ ret.op = "native_value"
    /\ Len(periods) = 2
    /\ periods[1].start = 0
    /\ TypeAt(FirstHour, 1) = "rain"
    /\ periods[1].type = "snow"
    /\ periods[2].type = "clear"

\* ------------------------------------------------------------------------
\* C5
\* ------------------------------------------------------------------------

\* The fragment the claim gives for a period, written out: the translated
\* description followed by the wording chosen by (start, duration).
ExpectedFragment(cache, period) ==
    LET start == period.start
        duration == period.end - period.start + 1
        desc == _translate_state(cache,
                    _get_precipitation_description_key(
                        period.type, period.max_intensity))
    IN  IF start = 0 /\ duration = 1 THEN desc \o " now"
        ELSE IF start = 0 /\ duration > 1
        THEN desc \o " for the next " \o ToString(duration) \o " minutes"
        ELSE IF start > 0 /\ duration = 1
        THEN desc \o " in " \o ToString(start) \o " minutes"
        ELSE desc \o " starting in " \o ToString(start)
                  \o " minutes, lasting " \o ToString(duration) \o " minutes"

RECURSIVE ExpectedSummary(_, _, _)
ExpectedSummary(cache, ps, k) ==
    IF k = Len(ps) THEN ExpectedFragment(cache, ps[k])
    ELSE ExpectedFragment(cache, ps[k]) \o "; "
         \o ExpectedSummary(cache, ps, k + 1)

SixMinutesOfRain == Stamp(Repeat(Wet(5, "rain"), 6))

\* C5: the summary native_value returns is one fragment per period, in
\* period order, joined by "; ", each fragment worded by (start, duration):
\* "now", "for the next {duration} minutes", "in {start} minutes" or
\* "starting in {start} minutes, lasting {duration} minutes"; with no period
\* it is the "no_precipitation" state and no template.  Six samples of 0.5
\* rain render with "for the next 6 minutes".
C5_SummaryFragments ==
    (ret.op = "native_value" /\ ret.value # None) =>
        /\ periods = <<>> =>
              ret.value = Some(_translate_state(translations, "no_precipitation"))
        /\ periods # <<>> =>
              ret.value = Some(ExpectedSummary(translations, periods, 1))
        /\ (HeldMinutes = SixMinutesOfRain /\ translations = EmptyCache) =>
              ret.value = Some("Light Rain for the next 6 minutes")

\* A summary of two fragments: a period at offset 0 and a later one.
C5_Witness ==
    /\ ret.op = "native_value"
    /\ Len(periods) = 2
    /\ periods[1].start = 0
    /\ periods[1].end > 0
    /\ periods[2].end > periods[2].start
    /\ translations = EmptyCache
    /\ ret.value = Some("Light Rain for the next 57 minutes; "
                        \o "Moderate Snow starting in 58 minutes, lasting 2 minutes")

\* ------------------------------------------------------------------------
\* C7
\* ------------------------------------------------------------------------

\* The icon the claim gives for a first period of this type and peak.
ExpectedPeriodIcon(type, peak) ==
    CASE type = "rain" /\ peak < 25 -> "mdi:weather-rainy"
      [] type = "rain" /\ peak >= 25 -> "mdi:weather-pouring"
      [] type = "snow" /\ peak < 25 -> "mdi:weather-snowy"
      [] type = "snow" /\ peak >= 25 -> "mdi:weather-snowy-heavy"
      [] type = "sleet" -> "mdi:weather-snowy-rainy"
      [] type = "hail" -> "mdi:weather-hail"
      [] OTHER -> "mdi:weather-rainy"

\* C7: icon, reading a payload with a next-hour forecast, returns the icon
\* of the first period's type and peak intensity alone when its scan finds a
\* period (the first maximal wet run of the minutes it scans), whatever the
\* later periods and the daylight flag; with no period it returns
\* mdi:weather-sunny in daylight and mdi:weather-night otherwise.
C7_IconOfFirstPeriod ==
    (ret.op = "icon" /\ ~NoData(data) /\ Has(data[1], ATTR_FORECAST_NEXT_HOUR)) =>
        LET m == HeldMinutes
            starts == RunStarts(m)
            daylight == data[1][ATTR_CURRENT_WEATHER] = None
                        \/ data[1][ATTR_CURRENT_WEATHER][1].daylight # Some(FALSE)
        IN  IF starts # {}
            THEN LET s == SetMin(starts)
                     e == SetMin(RunEnds(m))
                 IN  /\ periods # <<>>
                     /\ ret.value = Some(ExpectedPeriodIcon(
                                        LastNonClearType(m, s, e), PeakOf(m, s, e)))
            ELSE /\ periods = <<>>
                 /\ ret.value = Some(IF daylight THEN "mdi:weather-sunny"
                                     ELSE "mdi:weather-night")

\* Night, a first period of snow peaking at 2.5 and a later period of rain:
\* the heavy-snow icon.
C7_Witness ==
    /\ ret.op = "icon"
    /\ Len(periods) = 2
    /\ periods[1].type = "snow"
    /\ periods[1].max_intensity = 25
    /\ periods[2].type = "rain"
    /\ data[1][ATTR_CURRENT_WEATHER][1].daylight = Some(FALSE)
    /\ ret.value = Some("mdi:weather-snowy-heavy")

\* ------------------------------------------------------------------------
\* C1
\* ------------------------------------------------------------------------

\* C1 as claimed: while the coordinator holds no data or its last refresh
\* failed (also with an earlier payload still held), native_value yields
\* None, icon yields its default without scanning the held payload, and
\* extra_state_attributes yields no attribute.
C1_AsClaimed ==
    (NoData(data) \/ ~last_update_success) =>
        /\ ret.op = "native_value" => ret.value = None
        /\ ret.op = "icon" =>
              /\ ret.value = Some("mdi:weather-partly-cloudy")
              /\ periods = <<>>
        /\ ret.op = "extra_state_attributes" => ret.value = NoAttributes

\* ------------------------------------------------------------------------
\* C2
\* ------------------------------------------------------------------------

\* The held data with its minutes array replaced by m.
WithMinutes(d, m) ==
    Some([d[1] EXCEPT ![ATTR_FORECAST_NEXT_HOUR] =
                          Some([@[1] EXCEPT !.minutes = Some(m)])])

\* C2 as claimed: for a minutes array longer than 60 samples, the summary
\* native_value returns and the icon that icon returns are those of the
\* same payload with the array cut to its first 60 samples.
C2_AsClaimed ==
    Len(HeldMinutes) > 60 =>
        LET cut == WithMinutes(data, FirstHour)
        IN  /\ ret.op = "native_value" =>
                  ret.value = native_value(last_update_success, cut, translations)
            /\ ret.op = "icon" => ret.value = Some(icon(cut))

\* ------------------------------------------------------------------------
\* C4
\* ------------------------------------------------------------------------

\* The translated "no_precipitation" state: the cached translation, or the
\* title-cased key.
NoPrecipitationText ==
    IF translations["no_precipitation"] # None
    THEN translations["no_precipitation"][1]
    ELSE "No Precipitation"

\* The day/night clear default for the held payload.
DayNightDefault ==
    IF data[1][ATTR_CURRENT_WEATHER] # None
       /\ data[1][ATTR_CURRENT_WEATHER][1].daylight = Some(FALSE)
    THEN "mdi:weather-night" ELSE "mdi:weather-sunny"

\* The coordinator has data, the last update succeeded, and there is no
\* forecast minute: the data set is absent, empty, or without minutes.
ForecastMissing ==
    /\ last_update_success
    /\ ~NoData(data)
    /\ HeldMinutes = <<>>

\* C4 as claimed: with data held and the last update successful, a
\* next-hour data set that is absent, empty, or has a missing or empty
\* minutes array makes native_value return the translated
\* "no_precipitation" state and icon the day/night clear default, and
\* neither raises.
C4_AsClaimed ==
    ForecastMissing =>
        /\ ~ret.raised
        /\ ret.op = "native_value" => ret.value = Some(NoPrecipitationText)
        /\ ret.op = "icon" => ret.value = Some(DayNightDefault)

\* C4 amended: with data held and the last update successful, a next-hour
\* data set that is present but empty, or whose minutes array is missing or
\* empty, makes native_value return the translated "no_precipitation" state
\* and icon the day/night clear default; a data set absent from the data
\* makes native_value return None and icon mdi:weather-partly-cloudy;
\* neither raises.
C4_MissingForecast ==
    ForecastMissing =>
        /\ ~ret.raised
        /\ IF data[1][ATTR_FORECAST_NEXT_HOUR] = None
           THEN /\ ret.op = "native_value" => ret.value = None
                /\ ret.op = "icon" => ret.value = Some("mdi:weather-partly-cloudy")
           ELSE /\ ret.op = "native_value" => ret.value = Some(NoPrecipitationText)
                /\ ret.op = "icon" => ret.value = Some(DayNightDefault)

\* icon read at night from a next-hour data set that has the forecast
\* bounds but no minutes key.
C4_Witness ==
    /\ ForecastMissing
    /\ ret.op = "icon"
    /\ data[1][ATTR_FORECAST_NEXT_HOUR] # None
    /\ data[1][ATTR_FORECAST_NEXT_HOUR][1].forecastStart # None
    /\ data[1][ATTR_FORECAST_NEXT_HOUR][1].minutes = None
    /\ ret.value = Some("mdi:weather-night")

\* ------------------------------------------------------------------------
\* C8
\* ------------------------------------------------------------------------

\* C8: for a held payload whose minutes array is non-empty, of any length
\* n, extra_state_attributes reports minute_count = n and n minute records
\* in input order, each carrying that minute's startTime,
\* precipitationIntensity, precipitationChance and precipitationType
\* unchanged, never cut to 60; forecast_start / forecast_end are present
\* exactly when forecastStart / forecastEnd are, with their values.
C8_AttributesPassThrough ==
    (ret.op = "extra_state_attributes" /\ HeldMinutes # <<>>) =>
        LET n == Len(HeldMinutes)
            next_hour == data[1][ATTR_FORECAST_NEXT_HOUR][1]
        IN  /\ ret.value.minute_count = Some(n)
            /\ ret.value.minutes # None
            /\ Len(ret.value.minutes[1]) = n
            /\ \A k \in 1..n :
                  LET a == ret.value.minutes[1][k]
                      m == HeldMinutes[k]
                  IN  /\ a.start_time = m.startTime
                      /\ a.precipitation_intensity = m.precipitationIntensity
                      /\ a.precipitation_chance = m.precipitationChance
                      /\ a.precipitation_type = m.precipitationType
            /\ ret.value.forecast_start = next_hour.forecastStart
            /\ ret.value.forecast_end = next_hour.forecastEnd

\* 90 minutes reported, with a forecast start and no forecast end.
C8_Witness ==
    /\ ret.op = "extra_state_attributes"
    /\ Len(HeldMinutes) = 90
    /\ ret.value.minute_count = Some(90)
    /\ ret.value.forecast_start = Some("2023-09-08T22:03:04Z")
    /\ ret.value.forecast_end = None

\* ------------------------------------------------------------------------
\* C9
\* ------------------------------------------------------------------------

\* str() of an intensity held in tenths: 5 is "0.5".
FloatText(tenths) == ToString(tenths \div 10) \o "." \o ToString(tenths % 10)

\* C9 as claimed: after a successful fetch of a next-hour forecast the
\* sensor state is the precipitation intensity of the first forecast
\* minute ("0.5" for the six minutes of 0.5 rain).
C9_AsClaimed ==
    (ret.op = "native_value" /\ last_update_success /\ HeldMinutes # <<>>) =>
        ret.value = Some(FloatText(IntensityAt(HeldMinutes, 1)))

\* ------------------------------------------------------------------------
\* C6
\* ------------------------------------------------------------------------

\* The fields each template needs, and the template strings as written in
\* the source (for a key outside the dict: the key with "_" replaced).
NeededFields(key) ==
    CASE key = "now" -> {"precipitation"}
      [] key = "for_next_minutes" -> {"precipitation", "duration"}
      [] key = "in_minutes" -> {"precipitation", "minutes"}
      [] key = "starting_in_minutes_lasting" ->
            {"precipitation", "start_minutes", "duration"}
      [] key = "ending_in_{end}_minutes" -> {"end"}
      [] OTHER -> {}

UnformattedText(key) ==
    CASE key = "now" -> "{precipitation} now"
      [] key = "for_next_minutes" ->
            "{precipitation} for the next {duration} minutes"
      [] key = "in_minutes" -> "{precipitation} in {minutes} minutes"
      [] key = "starting_in_minutes_lasting" ->
            "{precipitation} starting in {start_minutes} minutes, lasting {duration} minutes"
      [] key = "until_further_notice" -> "until further notice"
      [] key = "ending_in_{end}_minutes" -> "ending in {end} minutes"
      [] key = "ending_in_{" -> "ending in {"

FormattedText(key, ph) ==
    CASE key = "now" -> ph["precipitation"][1] \o " now"
      [] key = "for_next_minutes" ->
            ph["precipitation"][1] \o " for the next "
            \o ph["duration"][1] \o " minutes"
      [] key = "in_minutes" ->
            ph["precipitation"][1] \o " in " \o ph["minutes"][1] \o " minutes"
      [] key = "starting_in_minutes_lasting" ->
            ph["precipitation"][1] \o " starting in " \o ph["start_minutes"][1]
            \o " minutes, lasting " \o ph["duration"][1] \o " minutes"
      [] key = "until_further_notice" -> "until further notice"
      [] key = "ending_in_{end}_minutes" ->
            "ending in " \o ph["end"][1] \o " minutes"

\* C6: _translate_forecast never raises; when formatting fails (the
\* placeholders lack a field of the template, or the template holds a
\* malformed field) it returns the template text unformatted, and
\* otherwise the template with its fields substituted.
C6_FormatFailureFallsBack ==
    ret.op = "_translate_forecast" =>
        LET fails == \/ ret.key = "ending_in_{"
                     \/ \E n \in NeededFields(ret.key) : ret.placeholders[n] = None
        IN  /\ ~ret.raised
            /\ fails => ret.value = Some(UnformattedText(ret.key))
            /\ ~fails => ret.value = Some(FormattedText(ret.key, ret.placeholders))

\* "for_next_minutes" called without its duration.
C6_Witness ==
    /\ ret.op = "_translate_forecast"
    /\ ret.key = "for_next_minutes"
    /\ ret.placeholders["precipitation"] # None
    /\ ret.placeholders["duration"] = None
    /\ ~ret.raised
    /\ ret.value = Some("{precipitation} for the next {duration} minutes")

\* ------------------------------------------------------------------------
\* C11
\* ------------------------------------------------------------------------

\* The tier the claim gives a peak (tenths of mm/h: 2.5 is 25, 10.0 is 100).
ClaimedTier(peak) ==
    IF peak < 25 THEN "light"
    ELSE IF peak < 100 THEN "moderate"
    ELSE "heavy"

\* The type name the claim gives a period's type.
ClaimedTypeName(type) ==
    IF type \in {"rain", "snow", "sleet", "hail"} THEN type ELSE "precipitation"

\* The description key the claim gives period k: the tier of the largest
\* intensity among that period's own samples, "_", the type name.
ClaimedKey(m, ps, k) ==
    ClaimedTier(PeakOf(m, ps[k].start + 1, ps[k].end + 1))
    \o "_" \o ClaimedTypeName(ps[k].type)

\* The fragment of period k worded around the text of that key.
ClaimedFragment(cache, m, ps, k) ==
    LET start == ps[k].start
        duration == ps[k].end - ps[k].start + 1
        desc == _translate_state(cache, ClaimedKey(m, ps, k))
    IN  IF start = 0 /\ duration = 1 THEN desc \o " now"
        ELSE IF start = 0
        THEN desc \o " for the next " \o ToString(duration) \o " minutes"
        ELSE IF duration = 1
        THEN desc \o " in " \o ToString(start) \o " minutes"
        ELSE desc \o " starting in " \o ToString(start)
                  \o " minutes, lasting " \o ToString(duration) \o " minutes"

RECURSIVE ClaimedSummary(_, _, _, _)
ClaimedSummary(cache, m, ps, k) ==
    IF k = Len(ps) THEN ClaimedFragment(cache, m, ps, k)
    ELSE ClaimedFragment(cache, m, ps, k) \o "; "
         \o ClaimedSummary(cache, m, ps, k + 1)

\* C11: for every period, the description key behind its summary fragment
\* is tier + "_" + typeName: the tier of the maximum intensity over the
\* samples of that period and of no other (light below 2.5, moderate from
\* 2.5 below 10.0, heavy from 10.0), the recorded peak being that maximum,
\* and typeName the period's type when it is rain, snow, sleet or hail and
\* "precipitation" otherwise.
C11_DescriptionKey ==
    (ret.op = "native_value" /\ periods # <<>>) =>
        /\ \A k \in 1..Len(periods) :
              /\ periods[k].max_intensity =
                    PeakOf(FirstHour, periods[k].start + 1, periods[k].end + 1)
              /\ _get_precipitation_description_key(
                     periods[k].type, periods[k].max_intensity)
                 = ClaimedKey(FirstHour, periods, k)
        /\ ret.value = Some(ClaimedSummary(translations, FirstHour, periods, 1))

\* A heavy period of rain followed by a light period of a type the sensor
\* does not know: the second fragment does not inherit the first's peak.
C11_Witness ==
    /\ ret.op = "native_value"
    /\ Len(periods) = 2
    /\ periods[1].max_intensity = 100
    /\ periods[2].max_intensity = 5
    /\ periods[2].type = "mixed"
    /\ translations = EmptyCache
    /\ ret.value = Some("Heavy Rain now; Light Precipitation in 2 minutes")

====
